---- MODULE Spec2Model ----
(***************************************************************************)
(* A model of src/tree.c of pygit2: the Tree, TreeEntry and TreeIter       *)
(* objects, their lookup, comparison, resolution, iteration and diff       *)
(* entry points.  The collaborators (libgit2's tree functions, the object  *)
(* database, the diff engine, CPython's integer and attribute functions)   *)
(* are modelled by their contracts at the places tree.c calls them.        *)
(***************************************************************************)
EXTENDS Integers, Sequences, FiniteSets, TLC

VARIABLES self, last, calls, held, iters, hist, refs, live

vars == <<self, last, calls, held, iters, hist, refs, live>>

(***************************************************************************)
(* Bounds of the model.                                                    *)
(***************************************************************************)
MaxLen == 3      \* most entries in the Tree under test
MaxIters == 2    \* most TreeIter objects created over the Tree
MaxStops == 2    \* most calls of next() on an iterator that has ended
MaxEntries == 2  \* most TreeEntry objects alive where references are counted

(***************************************************************************)
(* Program constants.  LONG_MAX is the largest value of the C long that    *)
(* Tree_fix_index converts the key to; its width is scaled down so that    *)
(* keys on both sides of it are enumerated.                                *)
(***************************************************************************)
LONG_MAX == 7
LONG_MIN == -LONG_MAX - 1
GIT_ENOTFOUND == -3
GIT_ERROR == -1
GIT_OK == 0

(***************************************************************************)
(* Bytes and strings.  A C string or a Python bytes object is a sequence   *)
(* of byte values, a Python text string a sequence of code points.         *)
(***************************************************************************)
SLASH == 47

\* the names "a", "b", "c", "d", and "b.", "b0" that sort around the tree "b"
NameA == <<97>>
NameB == <<98>>
NameC == <<99>>
NameD == <<100>>
NameBDot == <<98, 46>>
NameBZero == <<98, 48>>

\* the text strings "\u00e9" (two bytes in UTF-8) and "\udc80" (a lone
\* surrogate, which no strict encoding accepts)
TextEAcute == <<233>>
TextSurrogate == <<56448>>

Min(a, b) == IF a < b THEN a ELSE b

Sign(n) == IF n < 0 THEN -1 ELSE IF n > 0 THEN 1 ELSE 0

\* memcmp over the first n bytes of s and t: the sign of the first difference
RECURSIVE memcmp(_, _, _)
memcmp(s, t, n) ==
    IF n = 0 THEN 0
    ELSE IF s[1] # t[1] THEN Sign(s[1] - t[1])
    ELSE memcmp(Tail(s), Tail(t), n - 1)

SeqsUpTo(S, n) == UNION {[1..k -> S] : k \in 0..n}

(***************************************************************************)
(* Object ids, tree entries and the object database.                       *)
(***************************************************************************)
OidBlob1 == <<0, 1>>
OidBlob2 == <<0, 2>>
OidBlob3 == <<0, 3>>
OidSub == <<1, 0>>
OidCorrupt == <<1, 1>>
OidDeep == <<1, 2>>
OidCommit == <<2, 0>>

GitEntry(name, type, id) == [name |-> name, type |-> type, id |-> id]

NoGitEntry == GitEntry(<<>>, "none", <<>>)

EntA == GitEntry(NameA, "GIT_OBJ_BLOB", OidBlob1)
EntB == GitEntry(NameB, "GIT_OBJ_TREE", OidSub)
EntC == GitEntry(NameC, "GIT_OBJ_TREE", OidCorrupt)
EntD == GitEntry(NameD, "GIT_OBJ_COMMIT", OidCommit)
EntSubA == GitEntry(NameA, "GIT_OBJ_BLOB", OidBlob2)
EntSubD == GitEntry(NameD, "GIT_OBJ_TREE", OidDeep)
EntDeepA == GitEntry(NameA, "GIT_OBJ_BLOB", OidBlob3)

RootPool == {EntA, EntB, EntC, EntD}

\* the tree stored under OidSub
SubTree == <<EntSubA, EntC, EntSubD>>

\* the tree stored under OidDeep
DeepTree == <<EntDeepA>>

\* git_path_cmp as git_tree_entry_cmp applies it: bytes first, then the
\* byte after the common prefix, a tree's name ending in '/'
git_tree_entry_cmp(e1, e2) ==
    LET n1 == Len(e1.name)
        n2 == Len(e2.name)
        n == Min(n1, n2)
        c == memcmp(e1.name, e2.name, n)
        end1 == IF e1.type = "GIT_OBJ_TREE" THEN SLASH ELSE 0
        end2 == IF e2.type = "GIT_OBJ_TREE" THEN SLASH ELSE 0
        c1 == IF n1 > n THEN e1.name[n + 1] ELSE end1
        c2 == IF n2 > n THEN e2.name[n + 1] ELSE end2
    IN  IF c # 0 THEN c ELSE Sign(c1 - c2)

\* git_oid_cmp: memcmp over the raw id
git_oid_cmp(a, b) == memcmp(a, b, Len(a))

\* an entry sequence in the order the tree format stores it
IsSortedTree(es) ==
    \A i \in 1..(Len(es) - 1) : git_tree_entry_cmp(es[i], es[i + 1]) < 0

Trees == {es \in SeqsUpTo(RootPool, MaxLen) : IsSortedTree(es)}

\* a git_tree handle: NULL, or the entries of the tree
GitTree(es) == [null |-> FALSE, entries |-> es]

NullTree == [null |-> TRUE, entries |-> <<>>]

\* git_tree_entrycount
git_tree_entrycount(tree) == Len(tree.entries)

\* git_tree_entry_byindex: NULL beyond the last entry
git_tree_entry_byindex(tree, idx) ==
    IF idx >= 0 /\ idx < Len(tree.entries) THEN tree.entries[idx + 1]
    ELSE NoGitEntry

\* git_tree_lookup in the object database of the repository
git_tree_lookup(id) ==
    IF id = OidSub THEN [err |-> GIT_OK, tree |-> GitTree(SubTree)]
    ELSE IF id = OidDeep THEN [err |-> GIT_OK, tree |-> GitTree(DeepTree)]
    ELSE IF id = OidCorrupt THEN [err |-> GIT_ERROR, tree |-> NullTree]
    ELSE [err |-> GIT_ENOTFOUND, tree |-> NullTree]

\* the length of the first segment of a path
RECURSIVE subpath_len(_)
subpath_len(path) ==
    IF path = <<>> \/ path[1] = SLASH THEN 0
    ELSE 1 + subpath_len(Tail(path))

entry_fromname(tree, name) ==
    IF \E i \in 1..Len(tree.entries) : tree.entries[i].name = name
    THEN LET i == CHOOSE j \in 1..Len(tree.entries) : tree.entries[j].name = name
         IN  tree.entries[i]
    ELSE NoGitEntry

\* git_tree_entry_bypath: descends through the subtrees the path names
RECURSIVE git_tree_entry_bypath(_, _)
git_tree_entry_bypath(root, path) ==
    LET n == subpath_len(path)
        entry == entry_fromname(root, SubSeq(path, 1, n))
        rest == SubSeq(path, n + 2, Len(path))
        sub == git_tree_lookup(entry.id)
    IN  IF n = 0 THEN [err |-> GIT_ENOTFOUND, entry |-> NoGitEntry]
        ELSE IF entry = NoGitEntry THEN [err |-> GIT_ENOTFOUND, entry |-> NoGitEntry]
        ELSE IF Len(path) = n THEN [err |-> GIT_OK, entry |-> entry]
        ELSE IF entry.type # "GIT_OBJ_TREE"
             THEN [err |-> GIT_ENOTFOUND, entry |-> NoGitEntry]
        ELSE IF rest = <<>> THEN [err |-> GIT_OK, entry |-> entry]
        ELSE IF sub.err < 0 THEN [err |-> GIT_ERROR, entry |-> NoGitEntry]
        ELSE git_tree_entry_bypath(sub.tree, rest)

(***************************************************************************)
(* Python values: keys of the lookups and arguments of the exceptions.     *)
(***************************************************************************)
PyInt(i) == [type |-> "int", ival |-> i, sval |-> <<>>]
PyStr(s) == [type |-> "str", ival |-> 0, sval |-> s]
PyBytes(s) == [type |-> "bytes", ival |-> 0, sval |-> s]
PyNone == [type |-> "NoneType", ival |-> 0, sval |-> <<>>]
PyMessage(m) == [type |-> "message", ival |-> 0, sval |-> <<m>>]

Join(p, q) == p \o <<SLASH>> \o q

\* the paths tried: "a", "b", "c", "d"; "a/a" through a blob; "b/a" and "b/c"
\* inside the subtree; "b/b" missing from it; "b/" with a trailing
\* separator; "c/a" and "b/c/a" through a subtree the database cannot read;
\* "b/d/a" through two subtrees; "d/a" through a commit in the Tree and
\* through a subtree in the tree stored under OidSub
PathTexts ==
    {NameA, NameB, NameC, NameD, Join(NameA, NameA), Join(NameB, NameA),
     Join(NameB, NameC), Join(NameB, NameB), NameB \o <<SLASH>>,
     Join(NameC, NameA), Join(NameB, Join(NameC, NameA)),
     Join(NameB, Join(NameD, NameA)), Join(NameD, NameA)}

\* the paths also tried as bytes objects
PathBytes == {NameA, Join(NameB, NameA), Join(NameB, NameB), Join(NameC, NameA)}

PathKeys ==
    {PyStr(p) : p \in PathTexts} \cup {PyBytes(p) : p \in PathBytes}
        \cup {PyStr(TextEAcute), PyStr(TextSurrogate), PyNone}

\* the integers around the valid range of any tree and around the C long
IntKeys ==
    {PyInt(i) : i \in (-(MaxLen + 2)..(MaxLen + 2))
                      \cup {LONG_MIN - 1, LONG_MIN, LONG_MAX, LONG_MAX + 1}}

Keys == PathKeys \cup IntKeys

\* the file system encoding (UTF-8, strict) of one code point
EncodeChar(c) ==
    IF c < 128 THEN <<c>>
    ELSE IF c < 2048 THEN <<192 + (c \div 64), 128 + (c % 64)>>
    ELSE <<>>

Encodable(c) == c < 2048

RECURSIVE EncodeText(_)
EncodeText(s) ==
    IF s = <<>> THEN <<>> ELSE EncodeChar(s[1]) \o EncodeText(Tail(s))

\* py_path_to_c_str: the bytes of a bytes object, the encoding of a text
\* string, NULL for an unencodable string and for any other type
py_path_to_c_str(py_path) ==
    IF py_path.type = "bytes" THEN [null |-> FALSE, str |-> py_path.sval]
    ELSE IF py_path.type = "str"
         THEN IF \A i \in 1..Len(py_path.sval) : Encodable(py_path.sval[i])
              THEN [null |-> FALSE, str |-> EncodeText(py_path.sval)]
              ELSE [null |-> TRUE, str |-> <<>>]
    ELSE [null |-> TRUE, str |-> <<>>]

PyInt_Check(value) == value.type = "int"

\* PyInt_AsLong: the value, or OverflowError when it does not fit a C long
PyInt_AsLong(value) ==
    IF value.ival > LONG_MAX \/ value.ival < LONG_MIN
    THEN [err |-> TRUE, val |-> -1]
    ELSE [err |-> FALSE, val |-> value.ival]

(***************************************************************************)
(* Repository handles, TreeEntry objects, results and the record of the    *)
(* calls an operation makes into libgit2.                                  *)
(***************************************************************************)
\* a Repository pointer is "NULL", "repo" (the repository) or "garbage":
\* whatever a field that was never written happens to hold
Uninitialised == {"NULL", "garbage"}

PyEntry(entry, repo) == [entry |-> entry, repo |-> repo]

NoObj == PyEntry(NoGitEntry, "NULL")

Res0 ==
    [outcome |-> "none", exc |-> "none", key |-> PyNone, obj |-> NoObj,
     ret |-> 0, code |-> 0, target |-> NullTree, from |-> NullTree,
     to |-> NullTree]

Returned(obj) == [Res0 EXCEPT !.outcome = "entry", !.obj = obj]

Raised(exc, key) == [Res0 EXCEPT !.outcome = "raise", !.exc = exc, !.key = key]

ReturnedInt(n) == [Res0 EXCEPT !.outcome = "int", !.ret = n]

\* Error_set: the error of libgit2 as a Python exception that keeps its code
Error_set(err) ==
    [Res0 EXCEPT !.outcome = "raise", !.exc = "GitError", !.code = err]

Call0 ==
    [fn |-> "none", tree |-> NullTree, path |-> <<>>, idx |-> 0, id |-> <<>>,
     repo |-> "NULL", from |-> NullTree, to |-> NullTree, index |-> "none",
     opts |-> <<>>]

CallByIndex(tree, idx) ==
    [Call0 EXCEPT !.fn = "git_tree_entry_byindex", !.tree = tree, !.idx = idx]

CallByPath(tree, path) ==
    [Call0 EXCEPT !.fn = "git_tree_entry_bypath", !.tree = tree, !.path = path]

CallLookup(repo, id) ==
    [Call0 EXCEPT !.fn = "git_tree_lookup", !.repo = repo, !.id = id]

CallToObject(repo, entry) ==
    [Call0 EXCEPT !.fn = "git_tree_entry_to_object", !.repo = repo, !.id = entry.id]

\* the process died (a read through a pointer that points nowhere)
Crashed == [Res0 EXCEPT !.outcome = "crash"]

Subtree(tree) == [Res0 EXCEPT !.outcome = "subtree", !.target = tree]

\* wrap_object: a Python object for the git object id names
ReturnedObject(id, tree) ==
    [Res0 EXCEPT !.outcome = "object", !.target = tree, !.obj = PyEntry(GitEntry(<<>>, "object", id), "NULL")]

Out(res, cs) == [res |-> res, calls |-> cs]

(***************************************************************************)
(* Tree: positional and path lookup.                                       *)
(***************************************************************************)
\* wrap_tree_entry: the repo field is written only when repo is not NULL
wrap_tree_entry(entry, repo) ==
    {PyEntry(entry, r) : r \in (IF repo # "NULL" THEN {repo} ELSE Uninitialised)}

\* Tree_fix_index without the rewriting of negative indices
Tree_fix_index_no_rewrite(tree, py_index) ==
    LET conv == PyInt_AsLong(py_index)
        index == conv.val
        slen == git_tree_entrycount(tree)
    IN  IF conv.err
        THEN [exc |-> "OverflowError", key |-> py_index, index |-> -1]
        ELSE IF index >= slen \/ index < -slen
        THEN [exc |-> "IndexError", key |-> py_index, index |-> -1]
        ELSE [exc |-> "none", key |-> PyNone, index |-> index]

Tree_fix_index(tree, py_index) ==
    LET conv == PyInt_AsLong(py_index)
        index == conv.val
        slen == git_tree_entrycount(tree)
    IN  IF conv.err
        THEN [exc |-> "OverflowError", key |-> py_index, index |-> -1]
        ELSE IF index >= slen
        THEN [exc |-> "IndexError", key |-> py_index, index |-> -1]
        ELSE IF index < -slen
        THEN [exc |-> "IndexError", key |-> py_index, index |-> -1]
        ELSE IF index < 0
        THEN [exc |-> "none", key |-> PyNone, index |-> slen + index]
        ELSE [exc |-> "none", key |-> PyNone, index |-> index]

tree_getitem_by_index(tree, repo, py_index) ==
    LET fix == Tree_fix_index(tree, py_index)
        entry_src == git_tree_entry_byindex(tree, fix.index)
    IN  IF fix.exc # "none"
        THEN {Out(Raised(fix.exc, fix.key), <<>>)}
        ELSE IF entry_src = NoGitEntry
        THEN {Out(Raised("IndexError", py_index), <<CallByIndex(tree, fix.index)>>)}
        ELSE {Out(Returned(o), <<CallByIndex(tree, fix.index)>>) :
                 o \in wrap_tree_entry(entry_src, repo)}

\* tree_getitem_by_path raising KeyError with the encoded path as its key
tree_getitem_by_path_encoded_key(tree, repo, py_path) ==
    LET path == py_path_to_c_str(py_path)
        found == git_tree_entry_bypath(tree, path.str)
    IN  IF path.null
        THEN {Out(Raised("TypeError", PyMessage("Value must be a path string")), <<>>)}
        ELSE IF found.err = GIT_ENOTFOUND
        THEN {Out(Raised("KeyError", PyBytes(path.str)), <<CallByPath(tree, path.str)>>)}
        ELSE IF found.err < 0
        THEN {Out(Error_set(found.err), <<CallByPath(tree, path.str)>>)}
        ELSE {Out(Returned(o), <<CallByPath(tree, path.str)>>) :
                 o \in wrap_tree_entry(found.entry, repo)}

\* tree_getitem_by_path that looks up the first segment of the path only
tree_getitem_by_path_first_segment(tree, repo, py_path) ==
    LET path == py_path_to_c_str(py_path)
        first == SubSeq(path.str, 1, subpath_len(path.str))
        found == git_tree_entry_bypath(tree, first)
    IN  IF path.null
        THEN {Out(Raised("TypeError", PyMessage("Value must be a path string")), <<>>)}
        ELSE IF found.err = GIT_ENOTFOUND
        THEN {Out(Raised("KeyError", py_path), <<CallByPath(tree, path.str)>>)}
        ELSE IF found.err < 0
        THEN {Out(Error_set(found.err), <<CallByPath(tree, path.str)>>)}
        ELSE {Out(Returned(o), <<CallByPath(tree, path.str)>>) :
                 o \in wrap_tree_entry(found.entry, repo)}

tree_getitem_by_path(tree, repo, py_path) ==
    LET path == py_path_to_c_str(py_path)
        found == git_tree_entry_bypath(tree, path.str)
    IN  IF path.null
        THEN {Out(Raised("TypeError", PyMessage("Value must be a path string")), <<>>)}
        ELSE IF found.err = GIT_ENOTFOUND
        THEN {Out(Raised("KeyError", py_path), <<CallByPath(tree, path.str)>>)}
        ELSE IF found.err < 0
        THEN {Out(Error_set(found.err), <<CallByPath(tree, path.str)>>)}
        ELSE {Out(Returned(o), <<CallByPath(tree, path.str)>>) :
                 o \in wrap_tree_entry(found.entry, repo)}

Tree_getitem(t, value) ==
    IF PyInt_Check(value)
    THEN tree_getitem_by_index(t.tree, t.repo, value)
    ELSE tree_getitem_by_path(t.tree, t.repo, value)

\* Tree_truediv that chooses the lookup by the type of the operand
Tree_truediv_by_type(t, value) == Tree_getitem(t, value)

Tree_truediv(t, value) == tree_getitem_by_path(t.tree, t.repo, value)

\* Tree_contains taking every error of the store for "not found"
Tree_contains_swallow(t, py_name) ==
    LET name == py_path_to_c_str(py_name)
        found == git_tree_entry_bypath(t.tree, name.str)
    IN  IF name.null
        THEN Out([Raised("TypeError", py_name) EXCEPT !.ret = -1], <<>>)
        ELSE IF found.err < 0
        THEN Out(ReturnedInt(0), <<CallByPath(t.tree, name.str)>>)
        ELSE Out(ReturnedInt(1), <<CallByPath(t.tree, name.str)>>)

\* Tree_contains: 1 found, 0 not found, -1 with an exception set
Tree_contains(t, py_name) ==
    LET name == py_path_to_c_str(py_name)
        found == git_tree_entry_bypath(t.tree, name.str)
    IN  IF name.null
        THEN Out([Raised("TypeError", py_name) EXCEPT !.ret = -1], <<>>)
        ELSE IF found.err = GIT_ENOTFOUND
        THEN Out(ReturnedInt(0), <<CallByPath(t.tree, name.str)>>)
        ELSE IF found.err < 0
        THEN Out([Error_set(found.err) EXCEPT !.ret = -1],
                 <<CallByPath(t.tree, name.str)>>)
        ELSE Out(ReturnedInt(1), <<CallByPath(t.tree, name.str)>>)

Tree_len(t) == git_tree_entrycount(t.tree)

(***************************************************************************)
(* TreeEntry: resolution into the objects of the repository, and the       *)
(* lookups inside the subtree of a tree entry.                             *)
(***************************************************************************)
\* git_tree_entry_to_object in the object database of the repository
git_tree_entry_to_object(entry) ==
    IF entry.id \in {OidBlob1, OidBlob2, OidBlob3}
    THEN [err |-> GIT_OK, tree |-> NullTree]
    ELSE IF entry.id = OidSub THEN [err |-> GIT_OK, tree |-> GitTree(SubTree)]
    ELSE IF entry.id = OidDeep THEN [err |-> GIT_OK, tree |-> GitTree(DeepTree)]
    ELSE IF entry.id = OidCorrupt THEN [err |-> GIT_ERROR, tree |-> NullTree]
    ELSE [err |-> GIT_ENOTFOUND, tree |-> NullTree]

\* py_repo->repo: read through NULL or through a pointer that points
\* nowhere, the process dies or some handle comes back
RepoOf(repo) == IF repo = "repo" THEN {"repo"} ELSE {"crash", "garbage"}

\* treeentry_to_subtree that looks for the repository before the type
treeentry_to_subtree_repo_first(e) ==
    IF e.repo = "NULL"
    THEN {Out(Raised("ValueError",
                     PyMessage("No repository associated with this TreeEntry")), <<>>)}
    ELSE IF e.entry.type # "GIT_OBJ_TREE"
    THEN {Out(Raised("TypeError", PyMessage("Only for trees")), <<>>)}
    ELSE {IF r = "crash" THEN Out(Crashed, <<>>)
          ELSE LET found == git_tree_lookup(e.entry.id)
               IN  IF found.err < 0
                   THEN Out(Error_set(found.err), <<CallLookup(r, e.entry.id)>>)
                   ELSE Out(Subtree(found.tree), <<CallLookup(r, e.entry.id)>>) :
          r \in RepoOf(e.repo)}

treeentry_to_subtree(e) ==
    IF e.entry.type # "GIT_OBJ_TREE"
    THEN {Out(Raised("TypeError", PyMessage("Only for trees")), <<>>)}
    ELSE IF e.repo = "NULL"
    THEN {Out(Raised("ValueError",
                     PyMessage("No repository associated with this TreeEntry")), <<>>)}
    ELSE {IF r = "crash" THEN Out(Crashed, <<>>)
          ELSE LET found == git_tree_lookup(e.entry.id)
               IN  IF found.err < 0
                   THEN Out(Error_set(found.err), <<CallLookup(r, e.entry.id)>>)
                   ELSE Out(Subtree(found.tree), <<CallLookup(r, e.entry.id)>>) :
          r \in RepoOf(e.repo)}

\* treeentry_to_object without the test for a missing repository
treeentry_to_object_unchecked(e) ==
    {IF r = "crash" THEN Out(Crashed, <<>>)
     ELSE LET found == git_tree_entry_to_object(e.entry)
          IN  IF found.err < 0
              THEN Out(Error_set(found.err), <<CallToObject(r, e.entry)>>)
              ELSE Out(ReturnedObject(e.entry.id, found.tree),
                       <<CallToObject(r, e.entry)>>) :
     r \in RepoOf(e.repo)}

treeentry_to_object(e) ==
    IF e.repo = "NULL"
    THEN {Out(Raised("ValueError",
                     PyMessage("No repository associated with this TreeEntry")), <<>>)}
    ELSE {IF r = "crash" THEN Out(Crashed, <<>>)
          ELSE LET found == git_tree_entry_to_object(e.entry)
               IN  IF found.err < 0
                   THEN Out(Error_set(found.err), <<CallToObject(r, e.entry)>>)
                   ELSE Out(ReturnedObject(e.entry.id, found.tree),
                            <<CallToObject(r, e.entry)>>) :
          r \in RepoOf(e.repo)}

TreeEntry_tree__get__(e) ==
    {IF sub.res.outcome # "subtree" THEN sub
     ELSE Out(ReturnedObject(e.entry.id, sub.res.target), sub.calls) :
     sub \in treeentry_to_subtree(e)}

TreeEntry_blob__get__(e) ==
    IF e.entry.type # "GIT_OBJ_BLOB"
    THEN {Out(Raised("TypeError", PyMessage("Only for blobs")), <<>>)}
    ELSE treeentry_to_object(e)

\* an operation that resolved the subtree of e (sub) and then ran inside
\* it with the outcomes outs: the calls of both, the result of the second
After(sub, outs) == {Out(o.res, sub.calls \o o.calls) : o \in outs}

\* TreeEntry_contains: the same steps as Tree_contains, in the subtree
TreeEntry_contains(e, py_name) ==
    UNION {IF sub.res.outcome # "subtree"
           THEN {Out([sub.res EXCEPT !.ret = -1], sub.calls)}
           ELSE After(sub, {Tree_contains([tree |-> sub.res.target,
                                           repo |-> e.repo], py_name)}) :
           sub \in treeentry_to_subtree(e)}

TreeEntry_getitem(e, value) ==
    UNION {IF sub.res.outcome # "subtree" THEN {sub}
           ELSE IF PyInt_Check(value)
           THEN After(sub, tree_getitem_by_index(sub.res.target, e.repo, value))
           ELSE After(sub, tree_getitem_by_path(sub.res.target, e.repo, value)) :
           sub \in treeentry_to_subtree(e)}

TreeEntry_truediv(e, value) ==
    UNION {IF sub.res.outcome # "subtree" THEN {sub}
           ELSE After(sub, tree_getitem_by_path(sub.res.target, e.repo, value)) :
           sub \in treeentry_to_subtree(e)}

(***************************************************************************)
(* The operations on the Tree under test.  last is the operation the       *)
(* caller ran last, with its receiver (a TreeEntry, or none for the Tree),  *)
(* key and result; calls is what it asked of libgit2; held is the          *)
(* TreeEntry the caller got from its last successful lookup.  refs holds    *)
(* the reference counts of the Tree and of its repository and live the     *)
(* TreeEntry objects alive; they are followed by the operations of the     *)
(* specification SpecRef, which creates and destroys objects, and stand    *)
(* still in the specifications that compare results of single operations.  *)
(***************************************************************************)
\* the arguments of the diff and comparison operations
Args0 ==
    [given |-> "omitted", tree |-> NullTree, swap |-> 0, idx |-> "none",
     opts |-> <<>>, other |-> NoObj, cmpop |-> "none"]

LastOf(op, recv, key, args, res) ==
    [op |-> op, recv |-> recv, key |-> key, args |-> args, res |-> res]

Last(op, recv, key, res) == LastOf(op, recv, key, Args0, res)

TreeObjects == {[tree |-> GitTree(es), repo |-> r] : es \in Trees, r \in {"NULL", "repo"}}

\* the reference counts before any TreeEntry or TreeIter is made: the
\* caller's reference to the Tree, the Tree's reference to its repository
RefsOf(t) == [tree |-> 1, repo |-> IF t.repo = "NULL" THEN 0 ELSE 1]

Init ==
    /\ self \in TreeObjects
    /\ last = Last("none", NoObj, PyNone, Res0)
    /\ calls = <<>>
    /\ held = NoObj
    /\ iters = <<>>
    /\ hist = <<>>
    /\ refs = RefsOf(self)
    /\ live = <<>>

\* what the caller holds after a lookup: the new entry, or what it held
Keep(res) == IF res.outcome = "entry" THEN res.obj ELSE held

\* no operation runs in a process that died
Alive == last.res.outcome # "crash"

\* T[value]
Subscript(value) ==
    /\ Alive
    /\ \E out \in Tree_getitem(self, value) :
           /\ last' = Last("getitem", NoObj, value, out.res)
           /\ calls' = out.calls
           /\ held' = Keep(out.res)
           /\ UNCHANGED <<self, iters, hist, refs, live>>

\* T / value
TrueDiv(value) ==
    /\ Alive
    /\ \E out \in Tree_truediv(self, value) :
           /\ last' = Last("truediv", NoObj, value, out.res)
           /\ calls' = out.calls
           /\ held' = Keep(out.res)
           /\ UNCHANGED <<self, iters, hist, refs, live>>

\* value in T
Contains(value) ==
    LET out == Tree_contains(self, value)
    IN  /\ Alive
        /\ last' = Last("contains", NoObj, value, out.res)
        /\ calls' = out.calls
        /\ UNCHANGED <<self, held, iters, hist, refs, live>>

\* the operations on the TreeEntry the caller holds
EntryOp(op, value, outs) ==
    /\ Alive
    /\ held # NoObj
    /\ \E out \in outs :
           /\ last' = Last(op, held, value, out.res)
           /\ calls' = out.calls
           /\ held' = Keep(out.res)
           /\ UNCHANGED <<self, iters, hist, refs, live>>

\* e[value]
EntrySubscript(value) == EntryOp("entry_getitem", value, TreeEntry_getitem(held, value))

\* e / value
EntryTrueDiv(value) == EntryOp("entry_truediv", value, TreeEntry_truediv(held, value))

\* value in e
EntryContains(value) == EntryOp("entry_contains", value, TreeEntry_contains(held, value))

\* e.tree
EntryTree == EntryOp("entry_tree", PyNone, TreeEntry_tree__get__(held))

\* e.blob
EntryBlob == EntryOp("entry_blob", PyNone, TreeEntry_blob__get__(held))

\* treeentry_to_object(e), the resolution of an entry of any type
EntryObject == EntryOp("entry_object", PyNone, treeentry_to_object(held))

Next ==
    \/ \E value \in Keys : Subscript(value)
    \/ \E value \in PathKeys \cup {PyInt(0)} : TrueDiv(value)
    \/ \E value \in PathKeys \cup {PyInt(0)} : Contains(value)
    \/ \E value \in Keys : EntrySubscript(value)
    \/ \E value \in PathKeys \cup {PyInt(0)} : EntryTrueDiv(value)
    \/ \E value \in PathKeys \cup {PyInt(0)} : EntryContains(value)
    \/ EntryTree
    \/ EntryBlob
    \/ EntryObject

Spec == Init /\ [][Next]_vars

(***************************************************************************)
(* TreeIter.  iters holds the iterators created over the Tree, each with   *)
(* its owner and cursor as in the code; hist keeps, for each of them, the  *)
(* entries next() has returned and how often it has signalled the end.     *)
(***************************************************************************)
StopIteration == [Res0 EXCEPT !.outcome = "stop"]

Tree_iter(t) == [owner |-> t, i |-> 0]

\* TreeIter_iternext that does not move the cursor
TreeIter_iternext_stuck(it) ==
    LET entry_src == git_tree_entry_byindex(it.owner.tree, it.i)
        cs == <<CallByIndex(it.owner.tree, it.i)>>
    IN  IF entry_src = NoGitEntry
        THEN {[iter |-> it, out |-> Out(StopIteration, cs)]}
        ELSE {[iter |-> it, out |-> Out(Returned(o), cs)] :
                 o \in wrap_tree_entry(entry_src, it.owner.repo)}

\* TreeIter_iternext that goes back to the first entry once it has ended
TreeIter_iternext_restarts(it) ==
    LET entry_src == git_tree_entry_byindex(it.owner.tree, it.i)
        cs == <<CallByIndex(it.owner.tree, it.i)>>
    IN  IF entry_src = NoGitEntry
        THEN {[iter |-> [it EXCEPT !.i = 0], out |-> Out(StopIteration, cs)]}
        ELSE {[iter |-> [it EXCEPT !.i = @ + 1], out |-> Out(Returned(o), cs)] :
                 o \in wrap_tree_entry(entry_src, it.owner.repo)}

\* TreeIter_iternext: NULL with no exception set at the end of the entries
TreeIter_iternext(it) ==
    LET entry_src == git_tree_entry_byindex(it.owner.tree, it.i)
        cs == <<CallByIndex(it.owner.tree, it.i)>>
    IN  IF entry_src = NoGitEntry
        THEN {[iter |-> it, out |-> Out(StopIteration, cs)]}
        ELSE {[iter |-> [it EXCEPT !.i = @ + 1], out |-> Out(Returned(o), cs)] :
                 o \in wrap_tree_entry(entry_src, it.owner.repo)}

\* iter(T)
Iter ==
    /\ Alive
    /\ Len(iters) < MaxIters
    /\ iters' = Append(iters, Tree_iter(self))
    /\ hist' = Append(hist, [yielded |-> <<>>, stops |-> 0])
    /\ last' = Last("iter", NoObj, PyInt(Len(iters) + 1), Res0)
    /\ calls' = <<>>
    /\ UNCHANGED <<self, held, refs, live>>

\* next(it) with one cursor for all the iterators of the Tree
IterNext_shared_cursor(k) ==
    /\ Alive
    /\ k \in 1..Len(iters)
    /\ hist[k].stops < MaxStops
    /\ \E step \in TreeIter_iternext(iters[k]) :
           /\ iters' = [j \in 1..Len(iters) |-> [iters[j] EXCEPT !.i = step.iter.i]]
           /\ hist' = [hist EXCEPT
                  ![k] = IF step.out.res.outcome = "entry"
                         THEN [@ EXCEPT !.yielded = Append(@, step.out.res.obj.entry)]
                         ELSE [@ EXCEPT !.stops = @ + 1]]
           /\ last' = Last("next", NoObj, PyInt(k), step.out.res)
           /\ calls' = step.out.calls
           /\ held' = Keep(step.out.res)
           /\ UNCHANGED <<self, refs, live>>

\* next(it) on the k-th iterator
IterNext(k) ==
    /\ Alive
    /\ k \in 1..Len(iters)
    /\ hist[k].stops < MaxStops
    /\ \E step \in TreeIter_iternext(iters[k]) :
           /\ iters' = [iters EXCEPT ![k] = step.iter]
           /\ hist' = [hist EXCEPT
                  ![k] = IF step.out.res.outcome = "entry"
                         THEN [@ EXCEPT !.yielded = Append(@, step.out.res.obj.entry)]
                         ELSE [@ EXCEPT !.stops = @ + 1]]
           /\ last' = Last("next", NoObj, PyInt(k), step.out.res)
           /\ calls' = step.out.calls
           /\ held' = Keep(step.out.res)
           /\ UNCHANGED <<self, refs, live>>

\* the lookups on the Tree made between the calls of next()
IterLookups == {PyInt(0), PyInt(-1)}

NextIter ==
    \/ Iter
    \/ \E k \in 1..MaxIters : IterNext(k)
    \/ \E value \in IterLookups : Subscript(value)

SpecIter == Init /\ [][NextIter]_vars

(***************************************************************************)
(* TreeEntry comparison.                                                   *)
(***************************************************************************)
\* an operand of a comparison that is no TreeEntry
NotAnEntry == PyEntry(GitEntry(<<>>, "not_a_TreeEntry", <<>>), "NULL")

IsTreeEntry(b) == b.entry.type # "not_a_TreeEntry"

CmpOps == {"Py_LT", "Py_LE", "Py_EQ", "Py_NE", "Py_GT", "Py_GE", "unexpected"}

ReturnedBool(b) == [Res0 EXCEPT !.outcome = "bool", !.ret = IF b THEN 1 ELSE 0]

NotImplemented == [Res0 EXCEPT !.outcome = "NotImplemented"]

compare_ids(a, b) == git_oid_cmp(a.entry.id, b.entry.id)

TreeEntry_richcompare(a, b, op) ==
    LET c == git_tree_entry_cmp(a.entry, b.entry)
        cmp == IF c = 0 THEN compare_ids(a, b) ELSE c
    IN  IF ~IsTreeEntry(b) THEN NotImplemented
        ELSE IF op = "Py_LT" THEN ReturnedBool(cmp <= 0)
        ELSE IF op = "Py_LE" THEN ReturnedBool(cmp < 0)
        ELSE IF op = "Py_EQ" THEN ReturnedBool(cmp = 0)
        ELSE IF op = "Py_NE" THEN ReturnedBool(cmp # 0)
        ELSE IF op = "Py_GT" THEN ReturnedBool(cmp > 0)
        ELSE IF op = "Py_GE" THEN ReturnedBool(cmp >= 0)
        ELSE Raised("RuntimeError", PyMessage("Unexpected op"))

\* the entries compared: "b" as a blob and as a tree, "b." and "b0" that
\* sort on either side of the tree "b", each under two ids
CmpEntries ==
    {GitEntry(n, t, id) :
        n \in {NameA, NameB, NameBDot, NameBZero},
        t \in {"GIT_OBJ_BLOB", "GIT_OBJ_TREE"},
        id \in {OidBlob1, OidSub}}

CmpOperands == {PyEntry(e, "repo") : e \in CmpEntries}

\* the caller holds one TreeEntry of some tree
InitCmp ==
    /\ self = [tree |-> GitTree(<<>>), repo |-> "repo"]
    /\ last = Last("none", NoObj, PyNone, Res0)
    /\ calls = <<>>
    /\ held \in CmpOperands
    /\ iters = <<>>
    /\ hist = <<>>
    /\ refs = RefsOf(self)
    /\ live = <<>>

\* held < b, held <= b, ... for a TreeEntry or any other object b
RichCompare(b, op) ==
    /\ last' = LastOf("richcompare", held, PyNone,
                      [Args0 EXCEPT !.other = b, !.cmpop = op],
                      TreeEntry_richcompare(held, b, op))
    /\ calls' = <<>>
    /\ UNCHANGED <<self, held, iters, hist, refs, live>>

NextCmp == \E b \in CmpOperands \cup {NotAnEntry}, op \in CmpOps : RichCompare(b, op)

SpecCmp == InitCmp /\ [][NextCmp]_vars

(***************************************************************************)
(* The diff entry points of the Tree.                                      *)
(***************************************************************************)
\* GIT_DIFF_OPTIONS_INIT overwritten by the arguments given, in the order
\* flags, context_lines, interhunk_lines
DiffOptions(args) ==
    [flags |-> IF Len(args) >= 1 THEN args[1] ELSE 0,
     context_lines |-> IF Len(args) >= 2 THEN args[2] ELSE 3,
     interhunk_lines |-> IF Len(args) >= 3 THEN args[3] ELSE 0]

OptArgs == {<<>>, <<1>>, <<1, 5, 2>>}

CallDiff(fn, repo, from, to, index, args) ==
    [Call0 EXCEPT !.fn = fn, !.repo = repo, !.from = from, !.to = to,
                  !.index = index, !.opts = <<DiffOptions(args)>>]

\* wrap_diff: the handle of what the engine computed, for the operands given
ReturnedDiff(call) == [Res0 EXCEPT !.outcome = "diff", !.from = call.from, !.to = call.to]

\* the engine answers with a diff or with an error
EngineAnswers(call) ==
    {Out(ReturnedDiff(call), <<call>>), Out(Error_set(GIT_ERROR), <<call>>)}

Tree_diff_to_workdir(t, args) ==
    UNION {IF r = "crash" THEN {Out(Crashed, <<>>)}
           ELSE EngineAnswers(CallDiff("git_diff_tree_to_workdir", r, t.tree,
                                       NullTree, "none", args)) :
           r \in RepoOf(t.repo)}

\* what can be passed as the index: an Index; an object without _index;
\* one with _index and no _pointer; one whose _pointer is no bytes object,
\* or bytes of another length; one with _index and a _pointer of pointer size
IndexArgs == {"Index", "no_index_attr", "no_pointer_attr", "pointer_not_bytes",
              "pointer_wrong_size", "forged"}

Tree_diff_to_index(t, py_idx, args) ==
    IF py_idx = "no_index_attr"
    THEN {Out(Raised("TypeError", PyMessage("argument must be an Index")), <<>>)}
    ELSE IF py_idx = "no_pointer_attr"
    THEN {Out(Raised("AttributeError", PyMessage("_pointer")), <<>>)}
    ELSE IF py_idx = "pointer_not_bytes"
    THEN {Out(Raised("TypeError", PyMessage("expected bytes")), <<>>)}
    ELSE IF py_idx = "pointer_wrong_size"
    THEN {Out(Raised("TypeError", PyMessage("passed value is not a pointer")), <<>>)}
    ELSE UNION {IF r = "crash" THEN {Out(Crashed, <<>>)}
                ELSE EngineAnswers(CallDiff("git_diff_tree_to_index", r, t.tree,
                                            NullTree, py_idx, args)) :
                r \in RepoOf(t.repo)}

\* Tree_diff_to_tree that never exchanges its operands
Tree_diff_to_tree_no_swap(t, given, py_tree, args, swap) ==
    IF given = "object"
    THEN {Out(Raised("TypeError", PyMessage("argument 1 must be Tree")), <<>>)}
    ELSE LET to == IF given = "omitted" THEN NullTree ELSE py_tree
             from == t.tree
         IN  UNION {IF r = "crash" THEN {Out(Crashed, <<>>)}
                    ELSE EngineAnswers(CallDiff("git_diff_tree_to_tree", r,
                                                from, to, "none", args)) :
                    r \in RepoOf(t.repo)}

\* given says whether the first argument is left out, a Tree (py_tree is its
\* git_tree) or an object of another type
Tree_diff_to_tree(t, given, py_tree, args, swap) ==
    IF given = "object"
    THEN {Out(Raised("TypeError", PyMessage("argument 1 must be Tree")), <<>>)}
    ELSE LET to == IF given = "omitted" THEN NullTree ELSE py_tree
             from == t.tree
             from2 == IF swap > 0 THEN to ELSE from
             to2 == IF swap > 0 THEN from ELSE to
         IN  UNION {IF r = "crash" THEN {Out(Crashed, <<>>)}
                    ELSE EngineAnswers(CallDiff("git_diff_tree_to_tree", r,
                                                from2, to2, "none", args)) :
                    r \in RepoOf(t.repo)}

DiffOp(op, args, outs) ==
    /\ Alive
    /\ \E out \in outs :
           /\ last' = LastOf(op, NoObj, PyNone, args, out.res)
           /\ calls' = out.calls
           /\ UNCHANGED <<self, held, iters, hist, refs, live>>

\* T.diff_to_workdir(...)
DiffToWorkdir(args) ==
    DiffOp("diff_to_workdir", [Args0 EXCEPT !.opts = args],
           Tree_diff_to_workdir(self, args))

\* T.diff_to_index(py_idx, ...)
DiffToIndex(py_idx, args) ==
    DiffOp("diff_to_index", [Args0 EXCEPT !.opts = args, !.idx = py_idx],
           Tree_diff_to_index(self, py_idx, args))

\* T.diff_to_tree(...), T.diff_to_tree(other, ..., swap)
DiffToTree(given, py_tree, args, swap) ==
    DiffOp("diff_to_tree",
           [Args0 EXCEPT !.opts = args, !.given = given, !.tree = py_tree,
                         !.swap = swap],
           Tree_diff_to_tree(self, given, py_tree, args, swap))

\* the trees passed as the other tree: an empty Tree, which is not the
\* NULL of a tree left out, and two trees with entries
OtherTrees == {GitTree(<<>>), GitTree(<<EntA>>), GitTree(<<EntA, EntB>>)}

SwapValues == {-1, 0, 1, 2}

NextDiff ==
    \/ \E args \in OptArgs : DiffToWorkdir(args)
    \/ \E py_idx \in IndexArgs, args \in OptArgs : DiffToIndex(py_idx, args)
    \/ \E args \in OptArgs, swap \in SwapValues :
           \/ DiffToTree("omitted", NullTree, args, swap)
           \/ DiffToTree("object", NullTree, args, swap)
           \/ \E other \in OtherTrees : DiffToTree("tree", other, args, swap)

SpecDiff == Init /\ [][NextDiff]_vars

(***************************************************************************)
(* Reference counts: the objects made over the Tree and their destruction. *)
(***************************************************************************)
\* wrap_tree_entry: Py_INCREF(repo) when the repository is not NULL
wrap_tree_entry_refs(repo, r) ==
    IF repo # "NULL" THEN [r EXCEPT !.repo = @ + 1] ELSE r

\* TreeEntry_dealloc: frees the git_tree_entry and the object
TreeEntry_dealloc(e, r) == r

\* Tree_iter: Py_INCREF(self)
Tree_iter_refs(r) == [r EXCEPT !.tree = @ + 1]

\* TreeIter_dealloc: Py_CLEAR(self->owner)
TreeIter_dealloc(it, r) == [r EXCEPT !.tree = @ - 1]

RemoveAt(s, j) == SubSeq(s, 1, j - 1) \o SubSeq(s, j + 1, Len(s))

\* T[value], the TreeEntry it returns kept alive
RefSubscript(value) ==
    /\ Alive
    /\ Len(live) < MaxEntries
    /\ refs.repo <= MaxEntries
    /\ \E out \in Tree_getitem(self, value) :
           /\ last' = Last("getitem", NoObj, value, out.res)
           /\ calls' = out.calls
           /\ held' = Keep(out.res)
           /\ IF out.res.outcome = "entry"
              THEN /\ live' = Append(live, out.res.obj)
                   /\ refs' = wrap_tree_entry_refs(self.repo, refs)
              ELSE UNCHANGED <<refs, live>>
           /\ UNCHANGED <<self, iters, hist>>

\* the last reference to the j-th TreeEntry alive is dropped
RefEntryDealloc(j) ==
    /\ Alive
    /\ j \in 1..Len(live)
    /\ refs' = TreeEntry_dealloc(live[j], refs)
    /\ live' = RemoveAt(live, j)
    /\ last' = Last("entry_dealloc", live[j], PyNone, Res0)
    /\ calls' = <<>>
    /\ held' = NoObj
    /\ UNCHANGED <<self, iters, hist>>

\* iter(T)
RefIter ==
    /\ Alive
    /\ Len(iters) < MaxIters
    /\ iters' = Append(iters, Tree_iter(self))
    /\ hist' = Append(hist, [yielded |-> <<>>, stops |-> 0])
    /\ refs' = Tree_iter_refs(refs)
    /\ last' = Last("iter", NoObj, PyInt(Len(iters) + 1), Res0)
    /\ calls' = <<>>
    /\ UNCHANGED <<self, held, live>>

\* the last reference to the k-th TreeIter is dropped
RefIterDealloc(k) ==
    /\ Alive
    /\ k \in 1..Len(iters)
    /\ refs' = TreeIter_dealloc(iters[k], refs)
    /\ iters' = RemoveAt(iters, k)
    /\ hist' = RemoveAt(hist, k)
    /\ last' = Last("iter_dealloc", NoObj, PyInt(k), Res0)
    /\ calls' = <<>>
    /\ UNCHANGED <<self, held, live>>

NextRef ==
    \/ \E value \in IterLookups : RefSubscript(value)
    \/ \E j \in 1..MaxEntries : RefEntryDealloc(j)
    \/ RefIter
    \/ \E k \in 1..MaxIters : RefIterDealloc(k)

SpecRef == Init /\ [][NextRef]_vars

(***************************************************************************)
(* Properties of positional lookup.                                        *)
(***************************************************************************)
IsIndexLookup == last.op = "getitem" /\ PyInt_Check(last.key)

InRange(i) == -Tree_len(self) <= i /\ i < Tree_len(self)

\* C1: a lookup by a negative index i, -len(T) <= i < 0, returns an entry,
\* the same one as the lookup by i + len(T); -1 gives the last entry of the
\* tree and -len(T) the first.
C1_NegativeIndexEquivalence ==
    (IsIndexLookup /\ InRange(last.key.ival) /\ last.key.ival < 0) =>
        /\ last.res.outcome = "entry"
        /\ \A o \in Tree_getitem(self, PyInt(last.key.ival + Tree_len(self))) :
               /\ o.res.outcome = "entry"
               /\ o.res.obj.entry = last.res.obj.entry
        /\ last.key.ival = -1 =>
               last.res.obj.entry = self.tree.entries[Tree_len(self)]
        /\ last.key.ival = -Tree_len(self) =>
               last.res.obj.entry = self.tree.entries[1]

C1_Witness ==
    /\ IsIndexLookup
    /\ Tree_len(self) = MaxLen
    /\ last.key.ival = -2
    /\ last.res.outcome = "entry"
    /\ last.res.obj.entry = self.tree.entries[MaxLen - 1]

\* C2: a lookup by an integer outside [-len(T), len(T)-1] raises IndexError
\* with that very integer, returns no entry and asks nothing of the storage.
C2_OutOfRangeIsIndexError ==
    (IsIndexLookup /\ ~InRange(last.key.ival)) =>
        /\ last.res.outcome = "raise"
        /\ last.res.exc = "IndexError"
        /\ last.res.key = last.key
        /\ last.res.obj = NoObj
        /\ calls = <<>>

(***************************************************************************)
(* Properties of path lookup.                                              *)
(***************************************************************************)
IsPathLookup ==
    \/ last.op = "getitem" /\ ~PyInt_Check(last.key)
    \/ last.op = "truediv"

\* C4: contains(p) is true exactly when get_by_path(p) returns an entry,
\* false exactly when get_by_path(p) raises KeyError, and raises whenever
\* get_by_path(p) raises anything else.
C4_ContainsAgreesWithGetByPath ==
    last.op = "contains" =>
        \A o \in tree_getitem_by_path(self.tree, self.repo, last.key) :
            /\ (last.res.outcome = "int" /\ last.res.ret = 1)
                   <=> o.res.outcome = "entry"
            /\ (last.res.outcome = "int" /\ last.res.ret = 0)
                   <=> (o.res.outcome = "raise" /\ o.res.exc = "KeyError")
            /\ (o.res.outcome = "raise" /\ o.res.exc # "KeyError")
                   => (last.res.outcome = "raise" /\ last.res.ret = -1)

\* contains raised because the store could not read a subtree on the path
C4_Witness ==
    /\ last.op = "contains"
    /\ last.key = PyStr(Join(NameC, NameA))
    /\ last.res.outcome = "raise"
    /\ last.res.exc = "GitError"
    /\ Len(calls) = 1

\* the answer of the store's path resolution to the key of the last lookup
StoreAnswer == git_tree_entry_bypath(self.tree, py_path_to_c_str(last.key).str)

\* C6: when the store finds a segment of the path missing, get_by_path(p)
\* and T / p raise KeyError with the path argument itself as the key, return
\* no entry and have called the store's path resolution exactly once; any
\* other fault of the store is raised as the store's error, not as KeyError.
C6_MissingPathIsKeyError ==
    (IsPathLookup /\ ~py_path_to_c_str(last.key).null) =>
        /\ StoreAnswer.err = GIT_ENOTFOUND =>
               /\ last.res.outcome = "raise"
               /\ last.res.exc = "KeyError"
               /\ last.res.key = last.key
               /\ last.res.obj = NoObj
        /\ (StoreAnswer.err < 0 /\ StoreAnswer.err # GIT_ENOTFOUND) =>
               /\ last.res.outcome = "raise"
               /\ last.res.exc = "GitError"
               /\ last.res.code = StoreAnswer.err
               /\ last.res.obj = NoObj
        /\ calls = <<CallByPath(self.tree, py_path_to_c_str(last.key).str)>>

\* "b/b" in a tree that has the subtree b: the second segment is missing,
\* and the key is the text string, not its encoding
C6_Witness ==
    /\ last.op = "truediv"
    /\ last.key = PyStr(Join(NameB, NameB))
    /\ \E i \in 1..Tree_len(self) : self.tree.entries[i] = EntB
    /\ last.res.exc = "KeyError"
    /\ last.res.key = PyStr(Join(NameB, NameB))
    /\ Len(calls) = 1

(***************************************************************************)
(* Properties of iteration.                                                *)
(***************************************************************************)
\* C3: an iterator returns the entries of the tree in their stored order,
\* the k-th call of next() the entry at position k-1; it signals the end,
\* without an exception, only after all len(T) of them, on the first call
\* for the empty tree.
C3_IterationYieldsAllInOrder ==
    /\ \A k \in 1..Len(iters) :
           /\ Len(hist[k].yielded) <= Tree_len(self)
           /\ \A j \in 1..Len(hist[k].yielded) :
                  hist[k].yielded[j] = self.tree.entries[j]
           /\ hist[k].stops > 0 => Len(hist[k].yielded) = Tree_len(self)
    /\ last.op = "next" =>
           /\ last.res.outcome \in {"entry", "stop"}
           /\ last.res.exc = "none"
           /\ last.res.outcome = "stop" =>
                  Len(hist[last.key.ival].yielded) = Tree_len(self)

C3_Witness ==
    /\ Len(iters) >= 1
    /\ Tree_len(self) = MaxLen
    /\ hist[1].yielded = self.tree.entries
    /\ hist[1].stops = 1
    /\ last.op = "next"
    /\ last.res.outcome = "stop"

(***************************************************************************)
(* Properties of comparison.                                               *)
(***************************************************************************)
\* compare(a, b): the canonical order, and the order of the ids when that
\* is equal
CompareEntries(a, b) ==
    LET c == git_tree_entry_cmp(a.entry, b.entry)
    IN  IF c # 0 THEN c ELSE git_oid_cmp(a.entry.id, b.entry.id)

OperatorHolds(op, cmp) ==
    IF op = "Py_LT" THEN cmp < 0
    ELSE IF op = "Py_LE" THEN cmp <= 0
    ELSE IF op = "Py_EQ" THEN cmp = 0
    ELSE IF op = "Py_NE" THEN cmp # 0
    ELSE IF op = "Py_GT" THEN cmp > 0
    ELSE cmp >= 0

\* C5: each comparison operator of TreeEntry answers by compare(a, b):
\* < when LT, <= when LT or EQ, == when EQ, != when not EQ, > when GT,
\* >= when GT or EQ.
C5_RichCompareFollowsCompare ==
    (/\ last.op = "richcompare"
     /\ IsTreeEntry(last.args.other)
     /\ last.args.cmpop # "unexpected") =>
        /\ last.res.outcome = "bool"
        /\ last.res.ret = 1 <=>
               OperatorHolds(last.args.cmpop,
                             CompareEntries(last.recv, last.args.other))

(***************************************************************************)
(* Properties of the diff entry points.                                    *)
(***************************************************************************)
IsDiff == last.op \in {"diff_to_workdir", "diff_to_index", "diff_to_tree"}

\* the other operand of the last diff_to_tree: NULL when left out
OtherOperand == IF last.args.given = "omitted" THEN NullTree ELSE last.args.tree

\* C7: diff_to_tree calls the engine once, with (from, to) = (self, other)
\* when swap is false and (other, self) when swap is true, other being the
\* NULL tree when no tree is given; the diff returned is the engine's, for
\* those operands.
C7_DiffToTreeOperands ==
    last.op = "diff_to_tree" =>
        /\ (self.repo = "repo" /\ last.args.given # "object") => Len(calls) = 1
        /\ calls # <<>> =>
               /\ Len(calls) = 1
               /\ calls[1].fn = "git_diff_tree_to_tree"
               /\ last.args.swap = 0 =>
                      calls[1].from = self.tree /\ calls[1].to = OtherOperand
               /\ last.args.swap = 1 =>
                      calls[1].from = OtherOperand /\ calls[1].to = self.tree
               /\ last.res.outcome = "diff" =>
                      last.res.from = calls[1].from /\ last.res.to = calls[1].to

\* swap with no tree given: the NULL tree is the "from" side
C7_Witness ==
    /\ last.op = "diff_to_tree"
    /\ last.args.given = "omitted"
    /\ last.args.swap = 1
    /\ Tree_len(self) > 0
    /\ Len(calls) = 1
    /\ calls[1].from = NullTree
    /\ calls[1].to = self.tree
    /\ last.res.outcome = "diff"

\* C8: on a Tree without a repository each diff entry point raises an error
\* and does not call the engine.
C8_NoRepositoryDiffFails ==
    (IsDiff /\ self.repo = "NULL") =>
        /\ last.res.outcome = "raise"
        /\ calls = <<>>

(***************************************************************************)
(* Properties of the resolution of a TreeEntry.                            *)
(***************************************************************************)
IsResolve == last.op \in {"entry_tree", "entry_blob", "entry_object"}

\* the entry has the type the operation asks for
TypeFits ==
    /\ last.op = "entry_tree" => last.recv.entry.type = "GIT_OBJ_TREE"
    /\ last.op = "entry_blob" => last.recv.entry.type = "GIT_OBJ_BLOB"

\* the answer of the object database to the resolution of the entry
ResolveAnswer ==
    IF last.op = "entry_tree" THEN git_tree_lookup(last.recv.entry.id)
    ELSE git_tree_entry_to_object(last.recv.entry)

C10_WrongKindFails ==
    /\ (/\ last.op \in {"entry_tree", "entry_contains", "entry_getitem",
                        "entry_truediv"}
        /\ last.recv.entry.type # "GIT_OBJ_TREE") =>
           /\ last.res.outcome = "raise"
           /\ last.res.exc = "TypeError"
           /\ last.res.key = PyMessage("Only for trees")
           /\ last.res.obj = NoObj
           /\ calls = <<>>
    /\ (last.op = "entry_blob" /\ last.recv.entry.type # "GIT_OBJ_BLOB") =>
           /\ last.res.outcome = "raise"
           /\ last.res.exc = "TypeError"
           /\ last.res.key = PyMessage("Only for blobs")
           /\ last.res.obj = NoObj
           /\ calls = <<>>

\* e[0] on the entry of a commit, from a tree without a repository
C10_Witness ==
    /\ last.op = "entry_getitem"
    /\ last.recv.entry = EntD
    /\ last.recv.repo = "NULL"
    /\ last.key = PyInt(0)
    /\ last.res.exc = "TypeError"

(***************************************************************************)
(* Properties of the index argument of diff_to_index.                      *)
(***************************************************************************)
\* C11: diff_to_index with a first argument that is no Index raises a type
\* error and does not call the diff engine.
C11_OnlyAnIndexReachesTheEngine ==
    (/\ last.op = "diff_to_index"
     /\ self.repo = "repo"
     /\ last.args.idx # "Index") =>
        /\ last.res.outcome = "raise"
        /\ last.res.exc = "TypeError"
        /\ calls = <<>>

(***************************************************************************)
(* Properties of several iterators over one tree.                          *)
(***************************************************************************)
\* the k-th iterator took the step: next() was called on it
Stepped(k) == hist'[k] # hist[k]

\* C12: with several iterators over one Tree, next() calls and lookups
\* interleaved in any order, every iterator has returned the entries from
\* the first on, in order, as many as its own cursor says, and all of them
\* when it has ended; a call of next() moves the cursor of its own iterator
\* only, a lookup moves none, and no step changes the entries of the Tree.
C12_IteratorsAreIndependent ==
    /\ [](\A k \in 1..Len(iters) :
              /\ iters[k].owner = self
              /\ iters[k].i = Len(hist[k].yielded)
              /\ hist[k].yielded = SubSeq(self.tree.entries, 1, iters[k].i)
              /\ hist[k].stops > 0 => hist[k].yielded = self.tree.entries)
    /\ [][/\ self' = self
          /\ \A k \in 1..Len(iters) :
                 /\ iters'[k].owner = iters[k].owner
                 /\ (last'.op # "next" \/ last'.key # PyInt(k)) =>
                        /\ iters'[k] = iters[k]
                        /\ hist'[k] = hist[k]
                 /\ Stepped(k) =>
                        /\ last'.op = "next"
                        /\ last'.key = PyInt(k)
                        /\ \A j \in 1..Len(iters) :
                               j # k => iters'[j] = iters[j]]_vars

\* two iterators at different positions, the first ended, the second in the
\* middle, and a lookup made on the Tree after them
C12_Witness ==
    /\ Len(iters) = 2
    /\ Tree_len(self) >= 2
    /\ hist[1].stops > 0
    /\ hist[1].yielded = self.tree.entries
    /\ iters[2].i = 1
    /\ hist[2].yielded = <<self.tree.entries[1]>>
    /\ last.op = "getitem"
    /\ last.res.outcome = "entry"

(***************************************************************************)
(* Properties of multi-segment paths.                                      *)
(***************************************************************************)
\* the segments of a path, split at the separators
RECURSIVE Segments(_)
Segments(path) ==
    LET n == subpath_len(path)
    IN  IF n = Len(path) THEN <<path>>
        ELSE <<SubSeq(path, 1, n)>> \o Segments(SubSeq(path, n + 2, Len(path)))

\* a segment as a key of the type of the key it was cut from
SegmentKey(key, seg) == [key EXCEPT !.sval = seg]

\* e / s1 / ... / sn, one segment at a time: the results it can end with
RECURSIVE DescendFrom(_, _, _)
DescendFrom(e, key, segs) ==
    IF segs = <<>> THEN {Returned(e)}
    ELSE UNION {IF o.res.outcome # "entry" THEN {o.res}
                ELSE DescendFrom(o.res.obj, key, Tail(segs)) :
                o \in TreeEntry_truediv(e, SegmentKey(key, Head(segs)))}

\* T / s1 / ... / sn
ManualDescent(t, key, segs) ==
    UNION {IF o.res.outcome # "entry" THEN {o.res}
           ELSE DescendFrom(o.res.obj, key, Tail(segs)) :
           o \in Tree_truediv(t, SegmentKey(key, Head(segs)))}

IsMultiSegment(key) ==
    /\ key.type \in {"str", "bytes"}
    /\ Len(Segments(key.sval)) >= 2
    /\ \A i \in 1..Len(Segments(key.sval)) : Segments(key.sval)[i] # <<>>

\* C13: on a Tree, or a tree-kind TreeEntry, with a repository, a path of
\* several segments that resolves gives the TreeEntry (name, mode and id)
\* that the descent one segment at a time gives, and gives it as a TreeEntry:
\* the only call is the path lookup, the entry found is not looked up as an
\* object.
C13_ByPathIsManualDescent ==
    /\ (/\ last.op \in {"getitem", "truediv"}
        /\ self.repo = "repo"
        /\ IsMultiSegment(last.key)
        /\ last.res.outcome = "entry") =>
           /\ ManualDescent(self, last.key, Segments(last.key.sval)) = {last.res}
           /\ calls = <<CallByPath(self.tree, last.key.sval)>>
    /\ (/\ last.op \in {"entry_getitem", "entry_truediv"}
        /\ last.recv.repo = "repo"
        /\ IsMultiSegment(last.key)
        /\ last.res.outcome = "entry") =>
           /\ DescendFrom(last.recv, last.key, Segments(last.key.sval)) = {last.res}
           /\ Len(calls) = 2
           /\ calls[2].fn = "git_tree_entry_bypath"

\* "b/d/a", three segments through two subtrees, resolved from the Tree
C13_Witness ==
    /\ last.op = "getitem"
    /\ self.repo = "repo"
    /\ last.key = PyStr(Join(NameB, Join(NameD, NameA)))
    /\ last.res.outcome = "entry"
    /\ last.res.obj = PyEntry(EntDeepA, "repo")
    /\ calls = <<CallByPath(self.tree, Join(NameB, Join(NameD, NameA)))>>

(***************************************************************************)
(* Properties of the choice between the two lookups.                       *)
(***************************************************************************)
Called(fn) == \E i \in 1..Len(calls) : calls[i].fn = fn

\* the tree the operation looked in: the Tree, or the subtree of the entry
LookedIn ==
    IF last.recv = NoObj THEN self.tree
    ELSE git_tree_lookup(last.recv.entry.id).tree

\* the receiver is the Tree, or a tree-kind entry whose subtree resolves
HasTree ==
    \/ last.recv = NoObj
    \/ /\ last.recv.entry.type = "GIT_OBJ_TREE"
       /\ last.recv.repo = "repo"
       /\ git_tree_lookup(last.recv.entry.id).err = GIT_OK

\* the operation ran the lookup by position and no lookup by path
ByIndexOnly ==
    /\ ~Called("git_tree_entry_bypath")
    /\ last.res.outcome \in {"entry", "raise"}
    /\ last.res.outcome = "raise" => last.res.exc \in {"IndexError", "OverflowError"}
    /\ last.res.outcome = "entry" =>
           /\ Called("git_tree_entry_byindex")
           /\ last.res.obj.entry \in
                  {LookedIn.entries[i] : i \in 1..Len(LookedIn.entries)}
           /\ calls[Len(calls)].tree = LookedIn

\* the operation ran the lookup by path and no lookup by position
ByPathOnly ==
    /\ ~Called("git_tree_entry_byindex")
    /\ last.res.outcome \in {"entry", "raise"}
    /\ last.res.outcome = "raise" =>
           last.res.exc \in {"TypeError", "KeyError", "GitError"}
    /\ last.res.outcome = "entry" =>
           /\ calls[Len(calls)] = CallByPath(LookedIn, last.key.sval)
    /\ last.key.type \notin {"str", "bytes"} =>
           /\ last.res = Raised("TypeError", PyMessage("Value must be a path string"))
           /\ ~Called("git_tree_entry_bypath")

\* C14: on a Tree and on a tree-kind TreeEntry, the subscript with an int
\* key is the lookup by position and never a lookup by path, the subscript
\* with a key of any other type is the lookup by path and never one by
\* position; the division is the lookup by path whatever its operand is, and
\* with an int operand it raises TypeError.
C14_KeyTypeChoosesLookup ==
    /\ (last.op \in {"getitem", "entry_getitem"} /\ HasTree) =>
           IF last.key.type = "int" THEN ByIndexOnly ELSE ByPathOnly
    /\ (last.op \in {"truediv", "entry_truediv"} /\ HasTree) => ByPathOnly

\* T / 0 on a Tree that has an entry at position 0
C14_Witness ==
    /\ last.op = "truediv"
    /\ last.key = PyInt(0)
    /\ Tree_len(self) > 0
    /\ last.res.outcome = "raise"
    /\ last.res.exc = "TypeError"
    /\ calls = <<>>

(***************************************************************************)
(* Properties of the cursor of an iterator.                                *)
(***************************************************************************)
\* C15: the cursor of an iterator is 0 when the iterator is made, stays
\* between 0 and len(owner), moves forward only, by one entry at a time, and
\* is never set back; once next() has signalled the end on an iterator,
\* every later next() on it signals the end again and returns no entry.
C15_CursorOnlyAdvances ==
    /\ [](\A k \in 1..Len(iters) :
              /\ iters[k].i >= 0
              /\ iters[k].i <= Tree_len(iters[k].owner))
    /\ [][/\ Len(iters') > Len(iters) => iters'[Len(iters')].i = 0
          /\ \A k \in 1..Len(iters) :
                 /\ iters'[k].i \in {iters[k].i, iters[k].i + 1}
                 /\ (hist[k].stops > 0 /\ hist'[k] # hist[k]) =>
                        /\ last'.res = StopIteration
                        /\ iters'[k] = iters[k]
                        /\ hist'[k].yielded = hist[k].yielded]_vars

\* next() has signalled the end of a tree with entries MaxStops times
C15_Witness ==
    /\ Len(iters) >= 1
    /\ Tree_len(self) > 0
    /\ iters[1].i = Tree_len(self)
    /\ hist[1].stops = MaxStops
    /\ last = Last("next", NoObj, PyInt(1), StopIteration)

(***************************************************************************)
(* Properties of the repository field of the entries returned.             *)
(***************************************************************************)
\* C16: an entry returned by a lookup on the Tree, by position or by path,
\* or by next() has the repository of the Tree in its repo field: the same
\* repository when the Tree has one, NULL when it has none.
C16_EntryCarriesRepositoryOfTree ==
    (/\ last.op \in {"getitem", "truediv", "next"}
     /\ last.res.outcome = "entry") =>
        last.res.obj.repo = self.repo

(***************************************************************************)
(* Properties of the reference counts.                                     *)
(***************************************************************************)
\* C17: the references taken are given back: once every TreeEntry and
\* every TreeIter made over the Tree has been destroyed, the reference
\* counts of the repository and of the Tree are what they were before.
C17_ReferencesBalanced ==
    (live = <<>> /\ iters = <<>>) => refs = RefsOf(self)

====
